---- MODULE Spec2Model ----
(***************************************************************************)
(* Model of heeloo/huggingface:                                            *)
(*   env_manager.py  - the virtual-environment manager (menu loop, build   *)
(*                     sequence, listing), specification Spec;             *)
(*   use_dotenv.py   - the .env credential / API smoke test,               *)
(*                     specification SpecDotenv.                           *)
(* External processes (python -m venv, pip) and the HTTP API are modelled  *)
(* by their return codes / raised errors, chosen nondeterministically.     *)
(***************************************************************************)
EXTENDS Integers, Sequences, FiniteSets, TLC

\* ------------------------------------------------------------------ bounds

\* Largest number of comma-separated fields typed at the dependency prompt.
MaxFields == 1

\* ------------------------------------------------------- env_manager.py data

\* Environment names: the three sample environments and a custom one.
Names == {"default", "with_d2l", "with_jupyter", "t1"}

\* Names typed at the prompts of menu options 2 and 4.
CustomNames == {"t1"}

\* Kinds of entry at venvs/<name>.
Kinds == {"absent", "dir", "file"}

\* Tokens of a typed dependency field: a blank, or a specifier without blanks.
Blank == " "

FieldTokens == {Blank, "a==1.0", "b"}

Descriptions == {"custom env"}

\* Values datetime.now() may give during the run (0 is before the run).
Times == {1, 2}

\* Exit statuses of the external commands.
ReturnCodes == {0, 1}

\* Optional values (Python None / a value).
None == <<>>

Some(v) == <<v>>

\* Config files that exist before the program starts: one written by an
\* earlier run, and a hand-written one without a description key.
OldConfig(n) ==
    [name |-> n, dependencies |-> <<"b">>, description |-> Some("old"), created_at |-> 0]

BareConfig(n) ==
    [name |-> n, dependencies |-> <<>>, description |-> None, created_at |-> 0]

VARIABLES
    pc,          \* position of main(): "start", "menu" (at the prompt), "building",
                 \* "done" (the chosen option has returned), "exited"
    queue,       \* pending create_env_from_config calls of the current menu option
    rootExists,  \* VENV_DIR exists
    tmplExists,  \* CONFIG_TEMPLATES_DIR exists
    entries,     \* kind of the entry venvs/<name>
    configs,     \* content of config_templates/<name>.json, None if no such file
    last,        \* what the last create_env_from_config call did
    out,         \* what the last list_envs / activate_env call printed
    writes,      \* history: number of times <name>.json was written by this run
    halfBuilt,   \* history: names built up to a failing dependency install
    bpc,         \* use_dotenv.py: position of the script / test_api
    dotenvOk,    \* python-dotenv can be imported
    envFile,     \* content of HF_API_KEY in ./.env: None if no .env file
    environ,     \* os.environ.get("HF_API_KEY")
    api_key,      \* what get_api_key returned to create_client
    client,      \* the client of test_api, None if not created
    trace,       \* history: calls made by the run, in order
    result       \* return value of test_api, None while running

varsA ==
    <<pc, queue, rootExists, tmplExists, entries, configs, last, out,
      writes, halfBuilt>>

varsB == <<bpc, dotenvOk, envFile, environ, api_key, client, trace, result>>

vars == <<varsA, varsB>>

\* ---------------------------------------------------- env_manager.py helpers

\* os.path.exists(os.path.join(VENV_DIR, env_name))
path_exists(ents, n) == ents[n] # "absent"

\* One external command of a build, with its exit status.
Cmd(c, a, rc) == [cmd |-> c, arg |-> a, rc |-> rc]

\* create_venv without the already-exists check.
create_venv_no_check(ents, n, rc, partial) ==
    IF rc # 0
    THEN [ok |-> FALSE, cmds |-> <<Cmd("venv", n, rc)>>,
          entries |-> IF partial THEN [ents EXCEPT ![n] = "dir"] ELSE ents]
    ELSE [ok |-> TRUE, cmds |-> <<Cmd("venv", n, rc)>>,
          entries |-> [ents EXCEPT ![n] = "dir"]]

\* create_venv that removes an existing path (shutil.rmtree) and goes on.
create_venv_overwrite(ents, n, rc, partial) ==
    LET run == IF path_exists(ents, n)
               THEN <<Cmd("rmtree", n, 0), Cmd("venv", n, rc)>>
               ELSE <<Cmd("venv", n, rc)>>
    IN
    IF rc # 0
    THEN [ok |-> FALSE, cmds |-> run,
          entries |-> [ents EXCEPT ![n] = IF partial THEN "dir" ELSE "absent"]]
    ELSE [ok |-> TRUE, cmds |-> run, entries |-> [ents EXCEPT ![n] = "dir"]]

\* create_venv: refuse an existing path, otherwise run "python -m venv".  A
\* failed run may leave a partial directory behind (partial).
create_venv(ents, n, rc, partial) ==
    IF path_exists(ents, n)
    THEN [ok |-> FALSE, cmds |-> <<>>, entries |-> ents]
    ELSE IF rc # 0
         THEN [ok |-> FALSE, cmds |-> <<Cmd("venv", n, rc)>>,
               entries |-> IF partial THEN [ents EXCEPT ![n] = "dir"] ELSE ents]
         ELSE [ok |-> TRUE, cmds |-> <<Cmd("venv", n, rc)>>,
               entries |-> [ents EXCEPT ![n] = "dir"]]

\* The loop of install_dependencies without the return at a failure: every
\* dependency is tried, the result is False if one failed.
RECURSIVE install_loop_no_stop(_, _, _, _, _)
install_loop_no_stop(deps, rcs, i, cmds, pkgs) ==
    IF i > Len(deps)
    THEN [ok |-> TRUE, cmds |-> cmds, pkgs |-> pkgs]
    ELSE IF rcs[i] # 0
         THEN [install_loop_no_stop(deps, rcs, i + 1,
                                 Append(cmds, Cmd("pip_install", deps[i], rcs[i])), pkgs)
                   EXCEPT !.ok = FALSE]
         ELSE install_loop_no_stop(deps, rcs, i + 1,
                                Append(cmds, Cmd("pip_install", deps[i], rcs[i])),
                                Append(pkgs, deps[i]))

\* The loop of install_dependencies from dependency i on: one "pip install"
\* per dependency, return False at the first non-zero exit status.  rcs[i] is
\* the exit status pip gives for the i-th dependency if it is run.
RECURSIVE install_loop(_, _, _, _, _)
install_loop(deps, rcs, i, cmds, pkgs) ==
    IF i > Len(deps)
    THEN [ok |-> TRUE, cmds |-> cmds, pkgs |-> pkgs]
    ELSE IF rcs[i] # 0
         THEN [ok |-> FALSE, cmds |-> Append(cmds, Cmd("pip_install", deps[i], rcs[i])),
               pkgs |-> pkgs]
         ELSE install_loop(deps, rcs, i + 1,
                          Append(cmds, Cmd("pip_install", deps[i], rcs[i])),
                          Append(pkgs, deps[i]))

\* install_dependencies: refuse a missing environment; upgrade pip, ignoring
\* its exit status upRc; then run the loop.
install_dependencies(ents, pkgs, n, deps, upRc, rcs) ==
    IF ~path_exists(ents, n)
    THEN [ok |-> FALSE, cmds |-> <<>>, pkgs |-> pkgs]
    ELSE install_loop(deps, rcs, 1, <<Cmd("pip_upgrade", "pip", upRc)>>, pkgs)

\* create_env_config: the JSON document written to <env_name>.json.
create_env_config(n, deps, desc, t) ==
    Some([name |-> n, dependencies |-> deps, description |-> Some(desc), created_at |-> t])

\* create_env_from_config that ignores the result of install_dependencies.
create_env_from_config_no_install_check(fs, tmpl, n, config, t, x) ==
    LET v == create_venv(fs.entries, n, x.venvRc, x.partial) IN
    IF ~v.ok
    THEN [entries |-> v.entries, pkgs |-> <<>>, configs |-> fs.configs,
          cmds |-> v.cmds, wrote |-> FALSE, result |-> "False"]
    ELSE LET d == install_dependencies(v.entries, <<>>, n,
                                      config.dependencies, x.upRc, x.rcs)
         IN
         IF ~tmpl
         THEN [entries |-> v.entries, pkgs |-> d.pkgs, configs |-> fs.configs,
               cmds |-> v.cmds \o d.cmds, wrote |-> FALSE, result |-> "raised"]
         ELSE [entries |-> v.entries, pkgs |-> d.pkgs,
               configs |-> [fs.configs EXCEPT ![n] =
                   create_env_config(n, config.dependencies, config.description, t)],
               cmds |-> v.cmds \o d.cmds, wrote |-> TRUE, result |-> "True"]

\* create_env_from_config that goes on to install_dependencies when create_venv
\* failed on an existing directory.
create_env_from_config_reuse(fs, tmpl, n, config, t, x) ==
    LET v == create_venv(fs.entries, n, x.venvRc, x.partial) IN
    IF ~v.ok /\ ~(v.cmds = <<>> /\ fs.entries[n] = "dir")
    THEN [entries |-> v.entries, pkgs |-> <<>>, configs |-> fs.configs,
          cmds |-> v.cmds, wrote |-> FALSE, result |-> "False"]
    ELSE LET d == install_dependencies(v.entries, <<>>, n,
                                      config.dependencies, x.upRc, x.rcs)
         IN
         IF ~d.ok
         THEN [entries |-> v.entries, pkgs |-> d.pkgs, configs |-> fs.configs,
               cmds |-> v.cmds \o d.cmds, wrote |-> FALSE, result |-> "False"]
         ELSE IF ~tmpl
              THEN [entries |-> v.entries, pkgs |-> d.pkgs, configs |-> fs.configs,
                    cmds |-> v.cmds \o d.cmds, wrote |-> FALSE, result |-> "raised"]
              ELSE [entries |-> v.entries, pkgs |-> d.pkgs,
                    configs |-> [fs.configs EXCEPT ![n] =
                        create_env_config(n, config.dependencies, config.description, t)],
                    cmds |-> v.cmds \o d.cmds, wrote |-> TRUE, result |-> "True"]

\* create_env_from_config on the filesystem fs = [entries, configs] at time t;
\* pkgs are the packages of the environment afterwards, in installation order; x holds the exit statuses of the external commands.  result is
\* "True", "False", or "raised" when open() fails for want of the template
\* directory.
create_env_from_config(fs, tmpl, n, config, t, x) ==
    LET v == create_venv(fs.entries, n, x.venvRc, x.partial) IN
    IF ~v.ok
    THEN [entries |-> v.entries, pkgs |-> <<>>, configs |-> fs.configs,
          cmds |-> v.cmds, wrote |-> FALSE, result |-> "False"]
    ELSE LET d == install_dependencies(v.entries, <<>>, n,
                                      config.dependencies, x.upRc, x.rcs)
             inst == d.pkgs
         IN
         IF ~d.ok
         THEN [entries |-> v.entries, pkgs |-> inst, configs |-> fs.configs,
               cmds |-> v.cmds \o d.cmds, wrote |-> FALSE, result |-> "False"]
         ELSE IF ~tmpl
              THEN [entries |-> v.entries, pkgs |-> inst, configs |-> fs.configs,
                    cmds |-> v.cmds \o d.cmds, wrote |-> FALSE, result |-> "raised"]
              ELSE [entries |-> v.entries, pkgs |-> inst,
                    configs |-> [fs.configs EXCEPT ![n] =
                        create_env_config(n, config.dependencies, config.description, t)],
                    cmds |-> v.cmds \o d.cmds, wrote |-> TRUE, result |-> "True"]

\* The three configs of create_sample_envs, in call order.
SampleConfigs ==
    << [name |-> "default",
        dependencies |-> <<"openai>=1.0.0", "python-dotenv>=1.0.0">>,
        description |-> "default env"],
       [name |-> "with_d2l",
        dependencies |-> <<"openai>=1.0.0", "python-dotenv>=1.0.0", "d2l">>,
        description |-> "env with d2l"],
       [name |-> "with_jupyter",
        dependencies |-> <<"openai>=1.0.0", "python-dotenv>=1.0.0", "jupyter>=1.0.0",
                           "ipython>=8.0.0">>,
        description |-> "env with jupyter"] >>

\* dep.strip() on a field given as a sequence of tokens.
RECURSIVE StripLeft(_)
StripLeft(f) == IF f # <<>> /\ Head(f) = Blank THEN StripLeft(Tail(f)) ELSE f

RECURSIVE StripRight(_)
StripRight(f) ==
    IF f # <<>> /\ f[Len(f)] = Blank THEN StripRight(SubSeq(f, 1, Len(f) - 1)) ELSE f

Strip(f) == StripRight(StripLeft(f))

\* The string a stripped field stands for (fields hold one specifier at most).
Text(f) == IF f = <<>> THEN "" ELSE f[1]

\* Fields that can be typed between two commas.
RawFields ==
    {<<>>} \cup {<<t>> : t \in FieldTokens}
           \cup {<<Blank, t>> : t \in FieldTokens}
           \cup {<<t, Blank>> : t \in FieldTokens}

\* dependencies_input.split(","): always at least one field.
DependencyInputs == UNION {[1..k -> RawFields] : k \in 1..MaxFields}

\* [dep.strip() for dep in dependencies_input.split(",")]
ParseDependencies(fields) == [i \in 1..Len(fields) |-> Text(Strip(fields[i]))]

\* Texts printed by list_envs when a config has no description key / when
\* there is no config file, and the texts of the other messages.
NoDescription == "no description"

NoConfigFile == "no config file"

\* The loop of list_envs without the os.path.isdir test.
RECURSIVE list_loop_no_isdir(_, _, _, _, _)
list_loop_no_isdir(order, ents, cfgs, i, recs) ==
    IF i > Len(order)
    THEN recs
    ELSE LET env == order[i] IN
         IF cfgs[env] # None
         THEN LET d == cfgs[env][1].description IN
              list_loop_no_isdir(order, ents, cfgs, i + 1,
                              Append(recs, [env |-> env,
                                            text |-> IF d = None THEN NoDescription
                                                     ELSE d[1]]))
         ELSE list_loop_no_isdir(order, ents, cfgs, i + 1,
                              Append(recs, [env |-> env, text |-> NoConfigFile]))

\* The loop of list_envs over os.listdir(VENV_DIR) = order, from entry i on:
\* one line per directory entry.
RECURSIVE list_loop(_, _, _, _, _)
list_loop(order, ents, cfgs, i, recs) ==
    IF i > Len(order)
    THEN recs
    ELSE LET env == order[i] IN
         IF ents[env] = "dir"
         THEN IF cfgs[env] # None
              THEN LET d == cfgs[env][1].description IN
                   list_loop(order, ents, cfgs, i + 1,
                            Append(recs, [env |-> env,
                                          text |-> IF d = None THEN NoDescription ELSE d[1]]))
              ELSE list_loop(order, ents, cfgs, i + 1,
                            Append(recs, [env |-> env, text |-> NoConfigFile]))
         ELSE list_loop(order, ents, cfgs, i + 1, recs)

\* list_envs: msg "no_envs" is the no-environments message, "listing" the
\* header, the records and the closing rule.
list_envs(root, ents, cfgs, order) ==
    IF ~root
    THEN [op |-> "list", msg |-> "no_envs", records |-> <<>>]
    ELSE IF order = <<>>
         THEN [op |-> "list", msg |-> "no_envs", records |-> <<>>]
         ELSE [op |-> "list", msg |-> "listing",
               records |-> list_loop(order, ents, cfgs, 1, <<>>)]

\* activate_env: the activation command of the platform, or "not_found".
activate_env(ents, n, win32) ==
    IF ~path_exists(ents, n)
    THEN [op |-> "activate", msg |-> "not_found", records |-> <<>>]
    ELSE [op |-> "activate", msg |-> "hint",
          records |-> <<[env |-> n,
                         text |-> IF win32 THEN "Scripts/activate.bat" ELSE "bin/activate"]>>]

\* The orders in which os.listdir may return the entries S.
Orders(S) ==
    {o \in [1..Cardinality(S) -> S] : \A i, j \in 1..Cardinality(S) : i # j => o[i] # o[j]}

\* ------------------------------------------------- env_manager.py: main()

NoCall ==
    [name |-> "", dependencies |-> <<>>, description |-> "", existed |-> FALSE,
     cmds |-> <<>>, pkgs |-> <<>>, wrote |-> FALSE, result |-> "none"]

NoOutput == [op |-> "none", msg |-> "", records |-> <<>>]

\* Names under which entries and config files are found when the program starts.
StartNames == {"t1"}

\* Before main(): any filesystem left by earlier runs or by hand - venvs/ and
\* config_templates/ present or not, directories and stray files under
\* venvs/, config files with or without a directory.
InitEnvManager ==
    /\ pc = "start"
    /\ queue = <<>>
    /\ rootExists \in BOOLEAN
    /\ tmplExists \in BOOLEAN
    /\ entries \in [Names -> Kinds]
    /\ \A n \in Names : entries[n] # "absent" => rootExists /\ n \in StartNames
    /\ configs \in [Names -> {None} \cup {Some(OldConfig(n)) : n \in StartNames}
                                     \cup {Some(BareConfig(n)) : n \in StartNames}]
    /\ \A n \in Names : configs[n] # None => tmplExists /\ configs[n][1].name = n
    /\ last = NoCall
    /\ out = NoOutput
    /\ writes = [n \in Names |-> 0]
    /\ halfBuilt = {}

\* ensure_directories, the first call of main().
ensure_directories ==
    /\ pc = "start"
    /\ pc' = "menu"
    /\ rootExists' = TRUE
    /\ tmplExists' = TRUE
    /\ UNCHANGED <<queue, entries, configs, last, out, writes, halfBuilt>>

\* choice == "1": create_sample_envs, three create_env_from_config calls.
create_sample_envs ==
    /\ pc = "menu"
    /\ pc' = "building"
    /\ queue' = SampleConfigs
    /\ UNCHANGED <<rootExists, tmplExists, entries, configs, last, out, writes, halfBuilt>>

\* choice == "2": a custom environment from the three prompts.
ChoiceCustom ==
    /\ pc = "menu"
    /\ \E n \in CustomNames, input \in DependencyInputs, d \in Descriptions :
           queue' = <<[name |-> n, dependencies |-> ParseDependencies(input),
                       description |-> d]>>
    /\ pc' = "building"
    /\ UNCHANGED <<rootExists, tmplExists, entries, configs, last, out, writes, halfBuilt>>

\* What the external commands of one build of k dependencies may do: the exit
\* status venvRc of "python -m venv" and whether a failed run leaves a partial
\* directory, the exit status upRc of the pip upgrade, the exit status rcs[i]
\* of the i-th "pip install".  A command that cannot run has one outcome only:
\* none when the path exists, no pip outcome when venv fails.
Outcomes(exists, k) ==
    IF exists
    THEN {[venvRc |-> 0, partial |-> FALSE, upRc |-> 0, rcs |-> [i \in 1..k |-> 0]]}
    ELSE {[venvRc |-> 1, partial |-> p, upRc |-> 0, rcs |-> [i \in 1..k |-> 0]] :
              p \in BOOLEAN}
         \cup {[venvRc |-> 0, partial |-> FALSE, upRc |-> u, rcs |-> r] :
                  u \in ReturnCodes, r \in [1..k -> ReturnCodes]}

\* One create_env_from_config call of the current menu option.
RunBuild ==
    /\ pc = "building" /\ queue # <<>>
    /\ LET config == Head(queue)
           n == config.name
       IN
       \E t \in Times, x \in Outcomes(path_exists(entries, n), Len(config.dependencies)) :
           LET r == create_env_from_config(
                        [entries |-> entries, configs |-> configs],
                        tmplExists, n, config, t, x)
           IN
           /\ entries' = r.entries
           /\ configs' = r.configs
           /\ last' = [name |-> n, dependencies |-> config.dependencies,
                       description |-> config.description,
                       existed |-> path_exists(entries, n),
                       cmds |-> r.cmds, pkgs |-> r.pkgs, wrote |-> r.wrote,
                       result |-> r.result]
           /\ writes' = IF r.wrote THEN [writes EXCEPT ![n] = @ + 1] ELSE writes
           /\ halfBuilt' = IF /\ r.result = "False"
                              /\ r.cmds # <<>>
                              /\ r.cmds[1].rc = 0
                           THEN halfBuilt \cup {n} ELSE halfBuilt
    /\ queue' = Tail(queue)
    /\ pc' = IF Tail(queue) = <<>> THEN "done" ELSE "building"
    /\ UNCHANGED <<rootExists, tmplExists, out>>

\* choice == "3": list_envs.
ChoiceList ==
    /\ pc = "menu"
    /\ \E order \in Orders({n \in Names : entries[n] # "absent"}) :
           out' = list_envs(rootExists, entries, configs, order)
    /\ pc' = "done"
    /\ UNCHANGED <<queue, rootExists, tmplExists, entries, configs, last, writes, halfBuilt>>

\* choice == "4": activate_env.
ChoiceActivate ==
    /\ pc = "menu"
    /\ \E n \in CustomNames, win32 \in BOOLEAN : out' = activate_env(entries, n, win32)
    /\ pc' = "done"
    /\ UNCHANGED <<queue, rootExists, tmplExists, entries, configs, last, writes, halfBuilt>>

\* choice == "5": leave the loop.
ChoiceExit ==
    /\ pc = "menu"
    /\ pc' = "exited"
    /\ UNCHANGED <<queue, rootExists, tmplExists, entries, configs, last, out, writes,
                   halfBuilt>>

\* Back to the top of the while loop: the menu is printed again.
Prompt ==
    /\ pc = "done"
    /\ pc' = "menu"
    /\ last' = NoCall
    /\ out' = NoOutput
    /\ UNCHANGED <<queue, rootExists, tmplExists, entries, configs, writes, halfBuilt>>

\* Any other choice: the invalid-choice message, and the loop goes on.
ChoiceInvalid ==
    /\ pc = "menu"
    /\ out' = [op |-> "invalid", msg |-> "invalid", records |-> <<>>]
    /\ pc' = "done"
    /\ UNCHANGED <<queue, rootExists, tmplExists, entries, configs, last, writes, halfBuilt>>

\* use_dotenv.py does not run in this specification.
IdleDotenv ==
    /\ bpc = "idle"
    /\ dotenvOk = TRUE
    /\ envFile = None
    /\ environ = None
    /\ api_key = None
    /\ client = None
    /\ trace = <<>>
    /\ result = None

Init == InitEnvManager /\ IdleDotenv

Next ==
    \/ ensure_directories /\ UNCHANGED varsB
    \/ create_sample_envs /\ UNCHANGED varsB
    \/ ChoiceCustom /\ UNCHANGED varsB
    \/ RunBuild /\ UNCHANGED varsB
    \/ ChoiceList /\ UNCHANGED varsB
    \/ ChoiceActivate /\ UNCHANGED varsB
    \/ ChoiceExit /\ UNCHANGED varsB
    \/ ChoiceInvalid /\ UNCHANGED varsB
    \/ Prompt /\ UNCHANGED varsB

Spec == Init /\ [][Next]_vars

\* ------------------------------------------------------------ use_dotenv.py

\* The placeholder literal get_api_key compares with (a Chinese string in the
\* source, "your actual Hugging_Face_API key"; written here in ASCII).
Placeholder == "ni-de-shi-ji-Hugging_Face_API-mi-yao"

\* Values of HF_API_KEY tried: empty, the placeholder of the source, the
\* English sentence "replace this with your real key", a blank, a real key.
KeyValues == {"", Placeholder, "replace this with your real key", " ", "hf_abc"}

\* get_api_key that tests "is None" where the source tests falsiness.
get_api_key_is_none(value) ==
    IF value = None \/ value[1] = Placeholder THEN None ELSE value

\* get_api_key on the value of os.environ.get("HF_API_KEY"): None for a
\* falsy value or the placeholder, else the value.
get_api_key(value) ==
    IF value = None \/ value[1] = "" \/ value[1] = Placeholder THEN None ELSE value

\* load_dotenv() of python-dotenv with its defaults: a variable of ./.env is
\* set unless the process environment holds it already; no file, no change,
\* no error.
load_dotenv(env, file) ==
    IF file # None /\ file[1] # None /\ env = None THEN file[1] ELSE env

\* Before the script / before a call of test_api from an importing module.
InitDotenv ==
    /\ bpc \in {"main", "test_api"}
    /\ dotenvOk \in BOOLEAN
    /\ envFile \in {None, Some(None)} \cup {Some(Some(k)) : k \in KeyValues}
    /\ environ \in {None} \cup {Some(k) : k \in KeyValues}
    /\ api_key = None
    /\ client = None
    /\ trace = <<>>
    /\ result = None

\* The __main__ block: exit(1) unless dotenv can be imported, else test_api.
MainGuard ==
    /\ bpc = "main"
    /\ bpc' = IF dotenvOk THEN "test_api" ELSE "exit1"
    /\ UNCHANGED <<dotenvOk, envFile, environ, api_key, client, trace, result>>

\* test_api, first step: setup_environment returns False on ImportError and
\* True after load_dotenv otherwise.
setup_environment ==
    /\ bpc = "test_api"
    /\ IF dotenvOk
       THEN /\ environ' = load_dotenv(environ, envFile)
            /\ trace' = trace \o <<"setup_environment:True">>
            /\ bpc' = "create_client"
            /\ result' = result
       ELSE /\ environ' = environ
            /\ trace' = trace \o <<"setup_environment:False">>
            /\ bpc' = "returned"
            /\ result' = Some(FALSE)
    /\ UNCHANGED <<dotenvOk, envFile, api_key, client>>

\* test_api, second step: create_client - get_api_key, then the OpenAI
\* constructor, which may raise.
create_client ==
    /\ bpc = "create_client"
    /\ LET key == get_api_key(environ) IN
       /\ api_key' = key
       /\ IF key = None
          THEN /\ client' = None
               /\ trace' = trace \o <<"get_api_key">>
               /\ bpc' = "returned"
               /\ result' = Some(FALSE)
          ELSE \E raises \in BOOLEAN :
                   /\ client' = IF raises THEN None ELSE key
                   /\ trace' = trace \o <<"get_api_key",
                                           IF raises THEN "OpenAI:raised" ELSE "OpenAI:ok">>
                   /\ bpc' = IF raises THEN "returned" ELSE "request"
                   /\ result' = IF raises THEN Some(FALSE) ELSE result
    /\ UNCHANGED <<dotenvOk, envFile, environ>>

\* test_api whose except branch issues the request once more.
test_api_request_with_retry ==
    /\ bpc = "request"
    /\ \E raises \in BOOLEAN, again \in BOOLEAN :
           /\ trace' = IF raises
                       THEN trace \o <<"request:raised",
                                       IF again THEN "request:raised" ELSE "request:ok">>
                       ELSE Append(trace, "request:ok")
           /\ result' = Some(IF raises THEN ~again ELSE TRUE)
    /\ bpc' = "returned"
    /\ UNCHANGED <<dotenvOk, envFile, environ, api_key, client>>

\* test_api, last step: one chat.completions.create call inside try/except.
test_api_request ==
    /\ bpc = "request"
    /\ \E raises \in BOOLEAN :
           /\ trace' = Append(trace, IF raises THEN "request:raised" ELSE "request:ok")
           /\ result' = Some(~raises)
    /\ bpc' = "returned"
    /\ UNCHANGED <<dotenvOk, envFile, environ, api_key, client>>

\* env_manager.py does not run in this specification.
IdleEnvManager ==
    /\ pc = "idle"
    /\ queue = <<>>
    /\ rootExists = FALSE
    /\ tmplExists = FALSE
    /\ entries = [n \in Names |-> "absent"]
    /\ configs = [n \in Names |-> None]
    /\ last = NoCall
    /\ out = NoOutput
    /\ writes = [n \in Names |-> 0]
    /\ halfBuilt = {}

InitB == InitDotenv /\ IdleEnvManager

NextB ==
    \/ MainGuard /\ UNCHANGED varsA
    \/ setup_environment /\ UNCHANGED varsA
    \/ create_client /\ UNCHANGED varsA
    \/ test_api_request /\ UNCHANGED varsA

SpecDotenv == InitB /\ [][NextB]_vars

\* ------------------------------------------------- claims on env_manager.py

\* The "pip install <dependency>" commands of a command log, in order.
PipInstalls(cmds) == SelectSeq(cmds, LAMBDA c : c.cmd = "pip_install")

\* The log shows a successful "python -m venv".
VenvSucceeded(cmds) == cmds # <<>> /\ cmds[1].cmd = "venv" /\ cmds[1].rc = 0

\* The log shows every one of deps installed with exit status 0.
AllInstalled(cmds, deps) ==
    /\ Len(PipInstalls(cmds)) = Len(deps)
    /\ \A i \in 1..Len(deps) : PipInstalls(cmds)[i].rc = 0

\* This step is one create_env_from_config call, of the config at the head
\* of the queue.
IsBuildStep == pc = "building" /\ queue # <<>> /\ queue' = Tail(queue)

\* C1: a create_env_from_config(name, config) call writes <name>.json if and
\* only if the venv creation and every dependency install succeeded; on a
\* failure no config file is written or changed, on success the file holds
\* the given name and dependencies.
C1_ConfigIffBuildSucceeded ==
    [][IsBuildStep =>
          LET n == Head(queue).name
              deps == Head(queue).dependencies
              success == VenvSucceeded(last'.cmds) /\ AllInstalled(last'.cmds, deps)
          IN
          /\ last'.name = n
          /\ \A m \in Names \ {n} : configs'[m] = configs[m] /\ writes'[m] = writes[m]
          /\ success => /\ writes'[n] = writes[n] + 1
                        /\ configs'[n] # None
                        /\ configs'[n][1].name = n
                        /\ configs'[n][1].dependencies = deps
                        /\ last'.result = "True"
          /\ ~success => /\ writes'[n] = writes[n]
                         /\ configs'[n] = configs[n]
                         /\ last'.result = "False"]_vars

\* C1 witness: the end-to-end scenario - t1 built with ["a==1.0"], t1.json written.
C1_Witness ==
    /\ last.name = "t1" /\ last.result = "True"
    /\ last.dependencies = <<"a==1.0">>
    /\ AllInstalled(last.cmds, last.dependencies)
    /\ configs["t1"] # None
    /\ configs["t1"][1].dependencies = <<"a==1.0">>
    /\ writes["t1"] = 1

\* C2: in a call that reached install_dependencies, "pip install" ran once
\* per dependency, in input order, up to and including the first one that
\* failed and for none after it; a failure makes the call fail and leaves the
\* earlier dependencies installed; with no failure all are installed, in order.
C2_FailFastInOrder ==
    VenvSucceeded(last.cmds) =>
        LET p == PipInstalls(last.cmds)
            deps == last.dependencies
            k == Len(p)
        IN
        /\ k <= Len(deps)
        /\ \A i \in 1..k : p[i].arg = deps[i]
        /\ \A i \in 1..k : i < k => p[i].rc = 0
        /\ k < Len(deps) => k >= 1 /\ p[k].rc # 0
        /\ IF k >= 1 /\ p[k].rc # 0
           THEN last.result = "False" /\ last.pkgs = SubSeq(deps, 1, k - 1)
           ELSE last.result = "True" /\ last.pkgs = deps

\* C2 witness: [d1, d2, d3] with d2 failing - d1 installed, d3 never attempted.
C2_Witness ==
    /\ VenvSucceeded(last.cmds)
    /\ Len(last.dependencies) = 3
    /\ Len(PipInstalls(last.cmds)) = 2
    /\ PipInstalls(last.cmds)[2].rc # 0
    /\ last.pkgs = <<last.dependencies[1]>>
    /\ last.result = "False"

\* C3: a build whose target path venvs/<name> already exists runs no external
\* command, leaves the filesystem as it was and fails.
C3_ExistingPathRefused ==
    [][(IsBuildStep /\ path_exists(entries, Head(queue).name)) =>
          /\ last'.cmds = <<>>
          /\ last'.result = "False"
          /\ entries' = entries
          /\ configs' = configs]_vars

\* C3 witness: a build of a name whose path existed has returned.
C3_Witness == last.result = "False" /\ last.existed /\ last.cmds = <<>>

\* C4: once a build has written the config file of a name, no later operation
\* writes it again or changes its content.
C4_ConfigWrittenOnce ==
    [][\A n \in Names :
          writes[n] >= 1 => writes'[n] = writes[n] /\ configs'[n] = configs[n]]_vars

\* C4 witness: a second build of an already built name, with other
\* dependencies than the ones in its config file, has returned.
C4_Witness ==
    /\ last.result = "False" /\ last.existed
    /\ writes[last.name] = 1
    /\ configs[last.name] # None
    /\ configs[last.name][1].dependencies # last.dependencies

\* The records list_envs printed for the name n.
RecordsOf(n) == {i \in DOMAIN out.records : out.records[i].env = n}

\* No entry of venvs/ is a directory.
NoEnvDirs == \A n \in Names : entries[n] # "dir"

\* C7 (as claimed): with no environment directory under venvs/ - venvs/
\* missing, empty, or holding only non-directories - list_envs prints the
\* no-environments message.
C7_NoneMessageWithoutDirs == (out.op = "list" /\ NoEnvDirs) => out.msg = "no_envs"

\* C8: list_envs prints exactly one record per directory entry of venvs/,
\* with the description of its config, or a fallback text when the config
\* has no description or there is no config file; a non-directory entry and
\* a config file without a directory get no record.
C8_OneRecordPerDirectory ==
    out.op = "list" =>
        \A n \in Names :
            IF entries[n] = "dir"
            THEN /\ Cardinality(RecordsOf(n)) = 1
                 /\ \A i \in RecordsOf(n) :
                        out.records[i].text =
                            IF configs[n] = None THEN NoConfigFile
                            ELSE IF configs[n][1].description = None THEN NoDescription
                            ELSE configs[n][1].description[1]
            ELSE RecordsOf(n) = {}

\* C8 witness: a listing with a directory that has no config file, a
\* directory that has one, and a config file whose path is not a directory.
C8_Witness ==
    /\ out.op = "list"
    /\ \E n \in Names : entries[n] = "dir" /\ configs[n] = None
    /\ \E n \in Names : entries[n] = "dir" /\ configs[n] # None
    /\ \E n \in Names : entries[n] # "dir" /\ configs[n] # None

\* Config files that can exist before the run.
PriorConfigs(n) == {None, Some(OldConfig(n)), Some(BareConfig(n))}

KeyLookedUp == \E i \in DOMAIN trace : trace[i] = "get_api_key"

\* Number of chat-completion requests issued so far.
Requests ==
    Cardinality({i \in DOMAIN trace : trace[i] \in {"request:ok", "request:raised"}})

\* C5 (as claimed): get_api_key returns null for an unset or empty value and
\* for the placeholder "replace this with your real key", and the value
\* itself for every other string.
C5_PlaceholderAsInSpec ==
    KeyLookedUp =>
        api_key = IF \/ environ = None
                    \/ environ[1] = ""
                    \/ environ[1] = "replace this with your real key"
                 THEN None ELSE environ

\* C5 (amended): get_api_key returns null for an unset or empty value and for
\* the placeholder literal of the source, and the value itself for every
\* other string - "replace this with your real key" and a blank included.
C5_PlaceholderAsInSource ==
    KeyLookedUp =>
        api_key = IF environ = None \/ environ[1] \in {"", Placeholder}
                 THEN None ELSE environ

\* C5 witness: get_api_key has returned the English sentence as a valid key.
C5_Witness ==
    /\ KeyLookedUp
    /\ environ = Some("replace this with your real key")
    /\ api_key = environ

\* C6 (as claimed): when there is no .env file or dotenv cannot be imported,
\* setup_environment returns False and test_api stops before any credential
\* lookup or request.
C6_SetupFailsWithoutEnvFile ==
    (trace # <<>> /\ (envFile = None \/ ~dotenvOk)) =>
        /\ trace[1] = "setup_environment:False"
        /\ ~KeyLookedUp
        /\ Requests = 0

\* C9: a run of test_api issues exactly one request when setup_environment,
\* get_api_key and the client constructor all succeeded and none otherwise;
\* a request that raised gives the result False and is not repeated.
C9_OneRequestNoRetry ==
    /\ Requests <= 1
    /\ bpc = "returned" =>
           /\ Requests = IF /\ trace[1] = "setup_environment:True"
                            /\ api_key # None
                            /\ client # None
                         THEN 1 ELSE 0
           /\ trace[Len(trace)] = "request:raised" => result = Some(FALSE)
           /\ trace[Len(trace)] = "request:ok" => result = Some(TRUE)
    /\ Requests = 1 => bpc = "returned"

\* C9 witness: a run whose only request raised has returned False.
C9_Witness ==
    /\ bpc = "returned"
    /\ Requests = 1
    /\ trace[Len(trace)] = "request:raised"
    /\ result = Some(FALSE)

====
